---------------------------- MODULE Spec2Model ----------------------------
(***************************************************************************)
(* Model of Team_Projects/app.py: a Streamlit script that loads a table of *)
(* schooling projections (load_mys, cached by st.cache_data), reads one    *)
(* slider, adds two derived columns and draws three choropleth maps.       *)
(*                                                                         *)
(* Streamlit runs the script top to bottom once per page load and once per *)
(* widget interaction.  One script run is modelled as the sequence of its  *)
(* statements (pc); the user's interactions start the next run.            *)
(*                                                                         *)
(* Numbers of years of schooling and the slider value are kept in tenths   *)
(* of a year (7.0 years = 70, slider step 0.1 = 1).                        *)
(***************************************************************************)
EXTENDS Integers, Sequences, FiniteSets, TLC

(***************************************************************************)
(* Python values of the categorical columns: a cell is an int or a str.    *)
(* A str is a sequence of one-character strings.                           *)
(***************************************************************************)
IntVal(k) == [type |-> "int", n |-> k, s |-> <<>>]
StrVal(t) == [type |-> "str", n |-> 0, s |-> t]
None == [type |-> "none", n |-> 0, s |-> <<>>]

Digits == <<"0", "1", "2", "3", "4", "5", "6", "7", "8", "9">>

\* str(k) for a non-negative int k: its decimal digits.
RECURSIVE IntToStr(_)
IntToStr(k) ==
    IF k < 10 THEN <<Digits[k + 1]>>
    ELSE IntToStr(k \div 10) \o <<Digits[(k % 10) + 1]>>

\* s = str(a), line 43 and line 50.
PyStr(a) == IF a.type = "int" THEN IntToStr(a.n) ELSE a.s

\* Python's `sub in s` on two strings.
Contains(sub, s) ==
    \E i \in 1..(Len(s) - Len(sub) + 1) : SubSeq(s, i, i + Len(sub) - 1) = sub

\* Python's `x in arr` on an array of column values: some element equals x.
In(x, arr) == \E i \in 1..Len(arr) : arr[i] = x

\* df[c]: one column of a table, in row order.
Column(t, c) == [i \in 1..Len(t) |-> t[i][c]]

\* Series.unique(): the distinct values in order of first appearance.
Unique(col) ==
    LET F[i \in 0..Len(col)] ==
            IF i = 0 THEN <<>>
            ELSE IF In(col[i], F[i - 1]) THEN F[i - 1]
                 ELSE Append(F[i - 1], col[i])
    IN  F[Len(col)]

\* sorted(...) of distinct integers.
RECURSIVE SortedSeq(_)
SortedSeq(S) ==
    IF S = {} THEN <<>>
    ELSE LET m == CHOOSE x \in S : \A y \in S : x <= y
         IN  <<m>> \o SortedSeq(S \ {m})

Range(q) == {q[i] : i \in 1..Len(q)}

\* Variant: the years in the order of the rows.
Unsorted(q) == q

Sorted(q) == SortedSeq(Range(q))

Min(S) == CHOOSE x \in S : \A y \in S : x <= y
Max(S) == CHOOSE x \in S : \A y \in S : x >= y

(***************************************************************************)
(* Literals of the script.                                                 *)
(***************************************************************************)
S_SSP1 == <<"S", "S", "P", "1">>
S_1 == <<"1">>
S_15_24 == <<"1", "5", "-", "2", "4">>
S_15u24 == <<"1", "5", "_", "2", "4">>
S_1524 == <<"1", "5", "2", "4">>
S_15 == <<"1", "5">>

Year2025 == 2025
Year2035 == 2035

SliderMin == -10
SliderMax == 50
SliderDefault == 0

(***************************************************************************)
(* load_mys, lines 11-93.                                                  *)
(***************************************************************************)

\* Variant: "SSP1" is looked for before the integer 1.
DetectScenarioStringFirst(scen_vals) ==
    IF In(StrVal(S_SSP1), scen_vals) THEN StrVal(S_SSP1)
    ELSE IF In(IntVal(1), scen_vals) THEN IntVal(1)
    ELSE IF In(StrVal(S_1), scen_vals) THEN StrVal(S_1)
    ELSE None

\* Lines 20-28: how SSP1 is labelled.
DetectScenario(scen_vals) ==
    IF In(IntVal(1), scen_vals) THEN IntVal(1)
    ELSE IF In(StrVal(S_SSP1), scen_vals) THEN StrVal(S_SSP1)
    ELSE IF In(StrVal(S_1), scen_vals) THEN StrVal(S_1)
    ELSE None

\* Line 44: the direct youth patterns.
IsDirectYouth(a) ==
    \/ Contains(S_15_24, PyStr(a))
    \/ Contains(S_15u24, PyStr(a))
    \/ Contains(S_1524, PyStr(a))

\* Line 51: the fallback pattern.
MentionsFifteen(a) == Contains(S_15, PyStr(a))

\* Variant: one pass that takes every value mentioning 15.
YouthCandidatesOnePass(age_vals) == SelectSeq(age_vals, MentionsFifteen)

\* Lines 39-52: the candidates, in the order of age_vals.
YouthCandidates(age_vals) ==
    LET direct == SelectSeq(age_vals, IsDirectYouth)
    IN  IF direct # <<>> THEN direct
        ELSE SelectSeq(age_vals, MentionsFifteen)

\* Lines 64-68: the SSP1 / Both / youth rows.
InSlice(r, ssp1_label, youth_age) ==
    /\ r.scenario = ssp1_label
    /\ r.sex = "Both"
    /\ r.age = youth_age

FilterSlice(t, ssp1_label, youth_age) ==
    SelectSeq(t, LAMBDA r : InSlice(r, ssp1_label, youth_age))

\* Lines 78-83: the rows of one year, projected to (iso3, mys).
YearTable(df_ssp1, y) ==
    LET rows == SelectSeq(df_ssp1, LAMBDA r : r.year = y)
    IN  [i \in 1..Len(rows) |-> [iso3 |-> rows[i].iso3, mys |-> rows[i].mys]]

\* Variant: a join that ignores the key (every left row with every right row).
MergeCross(left, right) ==
    [k \in 1..(Len(left) * Len(right)) |->
        LET l == left[((k - 1) \div Len(right)) + 1]
            r == right[((k - 1) % Len(right)) + 1]
        IN  [iso3 |-> l.iso3, mys_2025 |-> l.mys, mys_2035 |-> r.mys]]

\* Line 85: DataFrame.merge(on="iso3", how="inner"): for every left row, in
\* order, one output row per right row with the same key.
RECURSIVE Merge(_, _)
Merge(left, right) ==
    IF left = <<>> THEN <<>>
    ELSE LET l == Head(left)
             m == SelectSeq(right, LAMBDA r : r.iso3 = l.iso3)
         IN  [j \in 1..Len(m) |->
                 [iso3 |-> l.iso3, mys_2025 |-> l.mys, mys_2035 |-> m[j].mys]]
             \o Merge(Tail(left), right)

\* Variant: the emptiness check is missing.
NeverEmpty(t) == FALSE

\* Line 87: df_merged.empty
IsEmpty(t) == t = <<>>

Raise(msg, payload, ssp1_label, youth_age) ==
    [raised |-> TRUE, msg |-> msg, payload |-> payload, df |-> <<>>,
     ssp1_label |-> ssp1_label, youth_age |-> youth_age]

Return(df_merged, ssp1_label, youth_age) ==
    [raised |-> FALSE, msg |-> "", payload |-> <<>>, df |-> df_merged,
     ssp1_label |-> ssp1_label, youth_age |-> youth_age]

\* The body of load_mys on the table read from the CSV file.  The result
\* also carries the locals ssp1_label and youth_age at the point of exit.
\* The year column is read as integers, so lines 16-17 leave it as it is.
LoadMysBody(t) ==
    LET scen_vals == Unique(Column(t, "scenario"))
        ssp1_label == DetectScenario(scen_vals)
        age_vals == Unique(Column(t, "age"))
        youth_candidates == YouthCandidates(age_vals)
        youth_age == youth_candidates[1]
        df_ssp1 == FilterSlice(t, ssp1_label, youth_age)
        years_available == Sorted(Unique(Column(df_ssp1, "year")))
        df_2025 == YearTable(df_ssp1, Year2025)
        df_2035 == YearTable(df_ssp1, Year2035)
        df_merged == Merge(df_2025, df_2035)
    IN  IF ssp1_label = None
        THEN Raise("Cannot detect SSP1 label", scen_vals, None, None)
        ELSE IF youth_candidates = <<>>
        THEN Raise("Cannot detect a youth age group", age_vals, ssp1_label, None)
        ELSE IF ~In(Year2025, years_available) \/ ~In(Year2035, years_available)
        THEN Raise("Expected years 2025 and 2035 not found", years_available,
                   ssp1_label, youth_age)
        ELSE IF IsEmpty(df_merged)
        THEN Raise("No overlapping countries", <<>>, ssp1_label, youth_age)
        ELSE Return(df_merged, ssp1_label, youth_age)


(***************************************************************************)
(* st.cache_data, line 10.                                                 *)
(***************************************************************************)

\* Variant: the exception is swallowed and the run goes on.
AlwaysContinue(raised) == "slider"

\* An exception raised by load_mys at line 102 is not caught: it ends the
\* script run.  Otherwise the run goes on to line 104.
AfterLoad(raised) == IF raised THEN "failed" ELSE "slider"

\* Variant: load_mys without the cache decorator.
NeverHit(c) == FALSE

\* A stored return value makes the next call a hit: the body is skipped.
CacheHit(c) == c # <<>>

\* Variant: the store hands out the stored object itself (st.cache_resource).
CacheSeesCallerWrite(c, written) ==
    IF c = <<>> THEN c ELSE <<[df |-> written, youth_age |-> c[1].youth_age]>>

\* st.cache_data stores a serialized return value and hands every caller a
\* fresh copy, so a caller's writes to its DataFrame never reach the store.
CacheAfterCallerWrite(c, written) == c

(***************************************************************************)
(* The statements after the load, lines 125-200.                           *)
(***************************************************************************)

\* Variant: the difference is taken from the unadjusted 2035 column.
AdjustRowStale(r, d) ==
    [iso3 |-> r.iso3, mys_2025 |-> r.mys_2025, mys_2035 |-> r.mys_2035,
     mys_2035_sim |-> r.mys_2035 + d, delta_2035_2025 |-> r.mys_2035 - r.mys_2025]

\* Lines 134 and 137, for one row and the slider's value d.
AdjustRow(r, d) ==
    LET sim == r.mys_2035 + d
    IN  [iso3 |-> r.iso3, mys_2025 |-> r.mys_2025, mys_2035 |-> r.mys_2035,
         mys_2035_sim |-> sim, delta_2035_2025 |-> sim - r.mys_2025]

\* Column assignment keeps the rows and their order.
Adjust(t, d) == [i \in 1..Len(t) |-> AdjustRow(t[i], d)]

\* Lines 161-162.
BaselineMin(t) ==
    LET a == Min(Range(Column(t, "mys_2025")))
        b == Min(Range(Column(t, "mys_2035")))
    IN  IF a <= b THEN a ELSE b

\* Variant: the upper end follows the simulated column.
BaselineMaxSim(t) ==
    LET a == Max(Range(Column(t, "mys_2025")))
        b == Max(Range(Column(t, "mys_2035_sim")))
    IN  IF a >= b THEN a ELSE b

BaselineMax(t) ==
    LET a == Max(Range(Column(t, "mys_2025")))
        b == Max(Range(Column(t, "mys_2035")))
    IN  IF a >= b THEN a ELSE b

\* Lines 143-156 and 191-198: what a figure shows.  color_range is <<>> for
\* a figure drawn with its own data-driven range.
MakeChoropleth(data, value_col, range) ==
    [value_col |-> value_col, locations |-> Column(data, "iso3"),
     color |-> Column(data, value_col), color_range |-> range]

(***************************************************************************)
(* Inputs.                                                                 *)
(***************************************************************************)
MaxRows == 3
MaxScenRows == 3
MaxAgeRows == 4

Countries == {"AAA", "BBB"}
OtherYear == 2030
MysValues == {70, 90}

A_15_24 == StrVal(S_15_24)
A_15plus == StrVal(<<"1", "5", "+">>)
A_65plus == StrVal(<<"6", "5", "+">>)
SSP2 == StrVal(<<"S", "S", "P", "2">>)

Row(c, sc, sx, a, y, m) ==
    [iso3 |-> c, scenario |-> sc, sex |-> sx, age |-> a, year |-> y, mys |-> m]

\* Rows of the scenario 1 / Both / 15-24 slice, and one row outside it for
\* each of the three filter columns.
MainRows ==
    {Row(c, IntVal(1), "Both", A_15_24, y, m) :
        c \in Countries, y \in {Year2025, Year2035}, m \in MysValues}
    \cup {Row(c, IntVal(1), "Both", A_15_24, OtherYear, 70) : c \in Countries}
    \cup {Row("AAA", SSP2, "Both", A_15_24, Year2035, 90),
          Row("AAA", IntVal(1), "Male", A_15_24, Year2035, 90),
          Row("AAA", IntVal(1), "Both", A_65plus, Year2035, 90)}

\* Rows that differ in how the scenario is written.
ScenarioValues ==
    {IntVal(1), IntVal(2), StrVal(S_SSP1), StrVal(S_1), SSP2}

ScenarioRows ==
    {Row("AAA", sc, "Both", A_15_24, y, 70) :
        sc \in ScenarioValues, y \in {Year2025, Year2035}}

\* Rows that differ in how the age group is written.
OtherAges ==
    {StrVal(<<"0", "-", "1", "4">>), StrVal(<<"2", "5", "-", "6", "4">>), A_65plus}

YouthAges ==
    {A_15_24, A_15plus, StrVal(S_15u24), IntVal(1524)}

AgeRows ==
    {Row("AAA", IntVal(1), "Both", a, Year2025, 70) : a \in OtherAges \cup YouthAges}
    \cup {Row("AAA", IntVal(1), "Both", a, Year2035, 70) : a \in {A_15_24, A_15plus}}

Tables(rows, n) == UNION {[1..k -> rows] : k \in 0..n}

\* The values the slider can be moved to.
DeltaChoices == {SliderMin, SliderDefault, SliderMax}

(***************************************************************************)
(* State.                                                                  *)
(***************************************************************************)
VARIABLES
    csv,          \* the rows of WD_MYS_Projections.csv
    cache,        \* st.cache_data's store for load_mys: <<>> or <<entry>>
    pc,           \* the statement the current script run is at
    frame,        \* locals of load_mys's body if it ran in this run, else <<>>
    error,        \* the exception that ended this run, else <<>>
    df,           \* the script's df
    youth_age,    \* the script's youth_age
    widget,       \* the slider's value in the session
    delta,        \* the script's delta: <<>> until st.slider returned
    color_range,  \* (mys_min, mys_max): <<>> until computed
    charts,       \* the figures passed to st.plotly_chart in this run
    moves         \* history: how often the slider was moved, counted up to 2

vars == <<csv, cache, pc, frame, error, df, youth_age, widget, delta,
          color_range, charts, moves>>

Fresh ==
    /\ cache = <<>>
    /\ pc = "load"
    /\ frame = <<>>
    /\ error = <<>>
    /\ df = <<>>
    /\ youth_age = None
    /\ widget = SliderDefault
    /\ delta = <<>>
    /\ color_range = <<>>
    /\ charts = <<>>
    /\ moves = 0

Init == csv \in Tables(MainRows, MaxRows) /\ Fresh

InitScenario == csv \in Tables(ScenarioRows, MaxScenRows) /\ Fresh

InitAge == csv \in Tables(AgeRows, MaxAgeRows) /\ Fresh

(***************************************************************************)
(* One script run, lines 100-200.                                          *)
(***************************************************************************)

\* Line 102: df, youth_age = load_mys()
LoadMys ==
    /\ pc = "load"
    /\ IF CacheHit(cache)
       THEN /\ df' = cache[1].df
            /\ youth_age' = cache[1].youth_age
            /\ pc' = AfterLoad(FALSE)
            /\ UNCHANGED <<cache, frame, error>>
       ELSE LET r == LoadMysBody(csv)
            IN  /\ frame' = <<[ssp1_label |-> r.ssp1_label, youth_age |-> r.youth_age]>>
                /\ IF r.raised
                   THEN /\ error' = <<[msg |-> r.msg, payload |-> r.payload]>>
                        /\ pc' = AfterLoad(TRUE)
                        /\ UNCHANGED <<cache, df, youth_age>>
                   ELSE /\ cache' = <<[df |-> r.df, youth_age |-> r.youth_age]>>
                        /\ df' = r.df
                        /\ youth_age' = r.youth_age
                        /\ pc' = AfterLoad(FALSE)
                        /\ UNCHANGED error
    /\ UNCHANGED <<csv, widget, delta, color_range, charts, moves>>

\* Lines 125-131: delta = st.slider(...)
Slider ==
    /\ pc = "slider"
    /\ delta' = <<widget>>
    /\ pc' = "adjust"
    /\ UNCHANGED <<csv, cache, frame, error, df, youth_age, widget,
                   color_range, charts, moves>>

\* Lines 134-137: the two derived columns.
AdjustColumns ==
    /\ pc = "adjust"
    /\ df' = Adjust(df, delta[1])
    /\ cache' = CacheAfterCallerWrite(cache, df')
    /\ pc' = "range"
    /\ UNCHANGED <<csv, frame, error, youth_age, widget, delta,
                   color_range, charts, moves>>

\* Lines 161-165: mys_min, mys_max.
ColorRange ==
    /\ pc = "range"
    /\ color_range' = <<BaselineMin(df), BaselineMax(df)>>
    /\ pc' = "chart_2025"
    /\ UNCHANGED <<csv, cache, frame, error, df, youth_age, widget, delta,
                   charts, moves>>

\* Lines 170-177.
Chart2025 ==
    /\ pc = "chart_2025"
    /\ charts' = Append(charts, MakeChoropleth(df, "mys_2025", color_range))
    /\ pc' = "chart_2035"
    /\ UNCHANGED <<csv, cache, frame, error, df, youth_age, widget, delta,
                   color_range, moves>>

\* Lines 179-186.
Chart2035 ==
    /\ pc = "chart_2035"
    /\ charts' = Append(charts, MakeChoropleth(df, "mys_2035_sim", color_range))
    /\ pc' = "chart_diff"
    /\ UNCHANGED <<csv, cache, frame, error, df, youth_age, widget, delta,
                   color_range, moves>>

\* Lines 191-200.
ChartDiff ==
    /\ pc = "chart_diff"
    /\ charts' = Append(charts, MakeChoropleth(df, "delta_2035_2025", <<>>))
    /\ pc' = "done"
    /\ UNCHANGED <<csv, cache, frame, error, df, youth_age, widget, delta,
                   color_range, moves>>

(***************************************************************************)
(* The user.  Streamlit starts a new run of the script, with fresh script  *)
(* variables and an empty page, when a widget changes or the page is       *)
(* reloaded; the cache outlives the run.                                   *)
(***************************************************************************)
NewRun ==
    /\ pc' = "load"
    /\ frame' = <<>>
    /\ error' = <<>>
    /\ df' = <<>>
    /\ youth_age' = None
    /\ delta' = <<>>
    /\ color_range' = <<>>
    /\ charts' = <<>>
    /\ UNCHANGED <<csv, cache>>

\* The user moves the slider of a finished page to d.
SliderChange(d) ==
    /\ pc = "done"
    /\ d # widget
    /\ widget' = d
    /\ moves' = IF moves < 2 THEN moves + 1 ELSE moves
    /\ NewRun

\* The user reloads a finished or a failed page.
Rerun ==
    /\ pc \in {"done", "failed"}
    /\ UNCHANGED <<widget, moves>>
    /\ NewRun

Next ==
    \/ LoadMys
    \/ Slider
    \/ AdjustColumns
    \/ ColorRange
    \/ Chart2025
    \/ Chart2035
    \/ ChartDiff
    \/ \E d \in DeltaChoices : SliderChange(d)
    \/ Rerun

Spec == Init /\ [][Next]_vars

SpecScenario == InitScenario /\ [][Next]_vars

SpecAge == InitAge /\ [][Next]_vars

(***************************************************************************)
(* Properties.                                                             *)
(***************************************************************************)

\* load_mys's body ran in this run / ran and returned / ran and raised.
BodyRan == frame # <<>>
Returned == BodyRan /\ error = <<>>
Raised == error # <<>>

\* Both labels were resolved by the body that ran in this run.
Resolved == BodyRan /\ frame[1].ssp1_label # None /\ frame[1].youth_age # None

\* The rows of the file in the resolved (scenario, sex, age-group) slice.
SliceIdx ==
    {i \in 1..Len(csv) :
        /\ csv[i].scenario = frame[1].ssp1_label
        /\ csv[i].sex = "Both"
        /\ csv[i].age = frame[1].youth_age}

HasRow(c, y) == \E i \in SliceIdx : csv[i].iso3 = c /\ csv[i].year = y

HasValue(c, y, m) ==
    \E i \in SliceIdx : csv[i].iso3 = c /\ csv[i].year = y /\ csv[i].mys = m

HasYear(y) == \E i \in SliceIdx : csv[i].year = y

Codes == {csv[i].iso3 : i \in 1..Len(csv)}

ReturnedTable == cache[1].df

InTable(c) == \E j \in 1..Len(ReturnedTable) : ReturnedTable[j].iso3 = c

\* C1: a table returned by load_mys has a row for a country code exactly
\* when the slice has a 2025 row and a 2035 row of that country, and every
\* row pairs a 2025 value and a 2035 value of its own country.
C1_JoinCorrect ==
    Returned =>
        /\ \A c \in Codes : InTable(c) <=> (HasRow(c, Year2025) /\ HasRow(c, Year2035))
        /\ \A j \in 1..Len(ReturnedTable) :
              /\ ReturnedTable[j].iso3 \in Codes
              /\ HasValue(ReturnedTable[j].iso3, Year2025, ReturnedTable[j].mys_2025)
              /\ HasValue(ReturnedTable[j].iso3, Year2035, ReturnedTable[j].mys_2035)

\* A returned table next to a country with a 2035 row only, whose 2035
\* value differs from the one a returned row carries.
C1_Witness ==
    /\ Returned
    /\ \E c \in Codes :
          /\ HasRow(c, Year2035)
          /\ ~HasRow(c, Year2025)
          /\ ~InTable(c)
          /\ \E j \in 1..Len(ReturnedTable) :
                ~HasValue(c, Year2035, ReturnedTable[j].mys_2035)

\* The years of the slice's rows.
SliceYears == {csv[i].year : i \in SliceIdx}

Increasing(q) == \A i \in 1..(Len(q) - 1) : q[i] < q[i + 1]

YearsMissing == ~HasYear(Year2025) \/ ~HasYear(Year2035)

\* C6: when 2025 or 2035 has no row in the slice, load_mys raises the
\* missing-year error, whose list is exactly the slice's years in ascending
\* order, and returns (and stores) no table.
C6_MissingYear ==
    (Resolved /\ YearsMissing) =>
        /\ Raised
        /\ error[1].msg = "Expected years 2025 and 2035 not found"
        /\ Range(error[1].payload) = SliceYears
        /\ Increasing(error[1].payload)
        /\ cache = <<>>
        /\ df = <<>>

\* The missing-year error for a slice whose rows list a later year first.
C6_Witness ==
    /\ Resolved
    /\ Raised
    /\ error[1].msg = "Expected years 2025 and 2035 not found"
    /\ Len(error[1].payload) = 2
    /\ \E i, j \in SliceIdx : i < j /\ csv[i].year > csv[j].year

NoOverlap == ~\E c \in Codes : HasRow(c, Year2025) /\ HasRow(c, Year2035)

\* C7: when both years are present in the slice but no country has a row in
\* both, load_mys raises the no-overlap error and returns no table; a table
\* it returns has at least one row.
C7_EmptyJoin ==
    /\ (Resolved /\ ~YearsMissing /\ NoOverlap) =>
          /\ Raised
          /\ error[1].msg = "No overlapping countries"
          /\ cache = <<>>
          /\ df = <<>>
    /\ cache # <<>> => Len(ReturnedTable) >= 1

\* Both years present, in rows of different countries.
C7_Witness ==
    /\ Resolved
    /\ ~YearsMissing
    /\ NoOverlap
    /\ pc = "failed"
    /\ \E c, d \in Codes : c # d /\ HasRow(c, Year2025) /\ HasRow(d, Year2035)

\* Two rows of the slice with the same country code and the same target year.
DuplicateKey ==
    \E i, j \in SliceIdx :
        /\ i # j
        /\ csv[i].iso3 = csv[j].iso3
        /\ csv[i].year = csv[j].year
        /\ csv[i].year \in {Year2025, Year2035}

\* C8: a slice with two rows for the same (country code, target year) makes
\* load_mys raise, and a returned table has at most one row per country
\* code.
C8_DuplicateRejected ==
    /\ (Resolved /\ DuplicateKey) => Raised
    /\ cache # <<>> =>
          \A i, j \in 1..Len(ReturnedTable) :
              ReturnedTable[i].iso3 = ReturnedTable[j].iso3 => i = j

\* C9: in a run in which load_mys raised, the slider is never created, no
\* adjusted column is computed and no map is drawn.
C9_FailureAborts ==
    Raised =>
        /\ pc = "failed"
        /\ delta = <<>>
        /\ df = <<>>
        /\ color_range = <<>>
        /\ charts = <<>>
        /\ cache = <<>>

\* A run that ended in the age-group failure.
C9_Witness ==
    /\ Raised
    /\ error[1].msg = "Cannot detect a youth age group"
    /\ error[1].payload # <<>>
    /\ pc = "failed"

ScenarioSet == {csv[i].scenario : i \in 1..Len(csv)}

ScenarioError == Raised /\ error[1].msg = "Cannot detect SSP1 label"

\* A list of the distinct values of S, each once.
ListsDistinct(q, S) == Range(q) = S /\ Len(q) = Cardinality(S)

\* C2: the scenario label is the integer 1 if the column has it, else the
\* string "SSP1" if it has it, else the string "1" if it has it; else
\* load_mys raises the scenario error carrying the column's distinct values.
C2_ScenarioPriority ==
    BodyRan =>
        IF IntVal(1) \in ScenarioSet
        THEN frame[1].ssp1_label = IntVal(1) /\ ~ScenarioError
        ELSE IF StrVal(S_SSP1) \in ScenarioSet
        THEN frame[1].ssp1_label = StrVal(S_SSP1) /\ ~ScenarioError
        ELSE IF StrVal(S_1) \in ScenarioSet
        THEN frame[1].ssp1_label = StrVal(S_1) /\ ~ScenarioError
        ELSE /\ ScenarioError
             /\ ListsDistinct(error[1].payload, ScenarioSet)
             /\ cache = <<>>

\* "SSP1" occurs in the file before the integer 1, and 1 is selected.
C2_Witness ==
    /\ BodyRan
    /\ frame[1].ssp1_label = IntVal(1)
    /\ \E i, j \in 1..Len(csv) :
          i < j /\ csv[i].scenario = StrVal(S_SSP1) /\ csv[j].scenario = IntVal(1)

AgeSet == {csv[i].age : i \in 1..Len(csv)}

\* Rows whose age value, as text, has one of the 15-24 patterns / has "15".
DirectIdx ==
    {i \in 1..Len(csv) :
        \/ Contains(<<"1", "5", "-", "2", "4">>, PyStr(csv[i].age))
        \/ Contains(<<"1", "5", "_", "2", "4">>, PyStr(csv[i].age))
        \/ Contains(<<"1", "5", "2", "4">>, PyStr(csv[i].age))}

BroadIdx == {i \in 1..Len(csv) : Contains(<<"1", "5">>, PyStr(csv[i].age))}

AgeError == Raised /\ error[1].msg = "Cannot detect a youth age group"

\* C3: once the scenario label is found, the age-group label is the first
\* value in the file's order whose text has "15-24", "15_24" or "1524";
\* with no such value, the first whose text has "15"; with none, load_mys
\* raises the age-group error carrying the column's distinct values.  A
\* returned label is the selected one.
C3_YouthLabel ==
    (BodyRan /\ frame[1].ssp1_label # None) =>
        /\ IF DirectIdx # {}
           THEN frame[1].youth_age = csv[Min(DirectIdx)].age /\ ~AgeError
           ELSE IF BroadIdx # {}
           THEN frame[1].youth_age = csv[Min(BroadIdx)].age /\ ~AgeError
           ELSE /\ AgeError
                /\ ListsDistinct(error[1].payload, AgeSet)
                /\ cache = <<>>
        /\ Returned => cache[1].youth_age = frame[1].youth_age

\* A value that only mentions 15 comes first, a 15-24 value later, and the
\* later one is selected.
C3_Witness ==
    /\ BodyRan
    /\ DirectIdx # {}
    /\ \E i \in BroadIdx \ DirectIdx : i < Min(DirectIdx)
    /\ frame[1].youth_age = csv[Min(DirectIdx)].age

Adjusted == pc \in {"range", "chart_2025", "chart_2035", "chart_diff", "done"}

\* C4: once the derived columns are computed, df has the rows of the loaded
\* table, in each row mys_2035_sim is mys_2035 plus the slider's current
\* value and delta_2035_2025 is mys_2035_sim minus mys_2025.
C4_AdjustedColumns ==
    Adjusted =>
        /\ delta = <<widget>>
        /\ Len(df) = Len(ReturnedTable)
        /\ \A i \in 1..Len(df) :
              /\ df[i].iso3 = ReturnedTable[i].iso3
              /\ df[i].mys_2025 = ReturnedTable[i].mys_2025
              /\ df[i].mys_2035 = ReturnedTable[i].mys_2035
              /\ df[i].mys_2035_sim = ReturnedTable[i].mys_2035 + widget
              /\ df[i].delta_2035_2025 = df[i].mys_2035_sim - ReturnedTable[i].mys_2025

\* The slider was moved at least twice (the first move is away from 0) and
\* now stands at its maximum; the table has two rows.
C4_Witness ==
    /\ pc = "done"
    /\ moves = 2
    /\ widget = SliderMax
    /\ Len(df) >= 2
    /\ df[1].mys_2035_sim = df[1].mys_2035 + SliderMax

BaseValues ==
    {ReturnedTable[i].mys_2025 : i \in 1..Len(ReturnedTable)}
    \cup {ReturnedTable[i].mys_2035 : i \in 1..Len(ReturnedTable)}

\* C5: the color range is (least, greatest) of the loaded table's mys_2025
\* and mys_2035 values, whatever the slider's value is or was, and the 2025
\* map and the simulated-2035 map are drawn with it.
C5_ColorRange ==
    /\ color_range # <<>> =>
          color_range = <<Min(BaseValues), Max(BaseValues)>>
    /\ \A k \in 1..Len(charts) :
          charts[k].value_col \in {"mys_2025", "mys_2035_sim"} =>
              charts[k].color_range = <<Min(BaseValues), Max(BaseValues)>>

\* After two slider moves the simulated column exceeds the range's upper
\* end, which is the 2035 column's maximum.
C5_Witness ==
    /\ pc = "done"
    /\ moves = 2
    /\ widget = SliderMax
    /\ \E i \in 1..Len(df) : df[i].mys_2035_sim > color_range[2]
    /\ \A i \in 1..Len(df) : df[i].mys_2025 < color_range[2]

\* C10: once load_mys has returned, the stored result (rows, values and
\* age-group label) never changes, and the body of load_mys does not run
\* again.
C10_CacheImmutable ==
    [][cache # <<>> => (cache' = cache /\ ~(frame = <<>> /\ frame' # <<>>))]_vars

\* A later run finished on a cache hit, with derived columns in df that the
\* stored table does not have.
C10_Witness ==
    /\ pc = "done"
    /\ moves = 2
    /\ frame = <<>>
    /\ cache # <<>>
    /\ Len(df) = Len(ReturnedTable)
    /\ df[1].mys_2035_sim # ReturnedTable[1].mys_2035
    /\ DOMAIN ReturnedTable[1] = {"iso3", "mys_2025", "mys_2035"}

=============================================================================
